---------------------------- MODULE Spec2Model ----------------------------
(***************************************************************************)
(* Model of the ink! contract LockUnlockSmartContract (src/lib.rs).        *)
(*                                                                         *)
(* The contract holds one optional deposit: `locker` (Option<AccountId>)   *)
(* and `locked_amount` (Balance).  `lock` is a payable message that        *)
(* records the caller and the transferred value; `redeem` gives the value  *)
(* back to the locker when the message is "Hello, World!".                 *)
(*                                                                         *)
(* The environment (self.env()) is modelled by what the contract asks of   *)
(* it: the caller, the transferred value, the events emitted (`events`)    *)
(* and the transfers requested (`transfers`, each with the outcome the     *)
(* environment reported).  `last` records the most recent message call:    *)
(* its arguments, its Result, and the contract and environment as they     *)
(* were when the call started.  `accepted` is the total of the values      *)
(* transferred with the calls of lock that returned Ok.                    *)
(***************************************************************************)
EXTENDS Integers, Sequences, FiniteSets, TLC

VARIABLES locker, locked_amount, events, transfers, calls, last, accepted

vars == <<locker, locked_amount, events, transfers, calls, last, accepted>>

-----------------------------------------------------------------------------
(* Bounds of the model *)

\* number of message calls explored in one behaviour
MaxCalls == 5

\* transferred values are drawn from 0..MaxValue
MaxValue == 2

-----------------------------------------------------------------------------
(* Inputs *)

\* AccountId values the environment may report as caller
Accounts == {"alice", "bob"}

\* Balance values the environment may report as transferred value
Values == 0..MaxValue

\* the literal the redeem message is compared with
ExpectedMessage == "Hello, World!"

\* String arguments given to redeem: the expected one, the one of the
\* repository's test, one differing in case only, one differing by
\* surrounding blanks only
Messages == {ExpectedMessage, "Wrong message", "hello, world!", " Hello, World! "}

-----------------------------------------------------------------------------
(* Option<AccountId> *)

None == <<>>

Some(a) == <<a>>

is_some(opt) == opt # None

-----------------------------------------------------------------------------
(* Events *)

Locked(l, a) == [event |-> "Locked", locker |-> l, amount |-> a]

Redeemed(l, a) == [event |-> "Redeemed", locker |-> l, amount |-> a]

-----------------------------------------------------------------------------
(* The record of a message call *)

\* the contract's storage and what the environment has seen so far
Snapshot == [locker |-> locker, locked_amount |-> locked_amount,
             events |-> events, transfers |-> transfers]

\* a call of `op` by `caller` with the given arguments returns `result`
Return(op, caller, value, message, result) ==
    /\ last' = [op |-> op, caller |-> caller, value |-> value,
                message |-> message, result |-> result, pre |-> Snapshot]
    /\ calls' = calls + 1
    /\ accepted' = IF op = "lock" /\ result = "Ok" THEN accepted + value ELSE accepted

-----------------------------------------------------------------------------
(* Construction *)

\* a constructor that records the deploying account as locker
Default_deployer ==
    /\ locker = Some("alice")
    /\ locked_amount = 0

Default ==
    /\ locker = None
    /\ locked_amount = 0

new == Default

\* the record of the construction by the constructor `ctor`
Constructed(ctor) ==
    [op |-> ctor, caller |-> "", value |-> 0, message |-> "",
     result |-> "Ok", pre |-> [locker |-> None, locked_amount |-> 0,
                                events |-> <<>>, transfers |-> <<>>]]

Init ==
    /\ \/ Default /\ last = Constructed("default")
       \/ new /\ last = Constructed("new")
    /\ events = <<>>
    /\ transfers = <<>>
    /\ calls = 0
    /\ accepted = 0

-----------------------------------------------------------------------------
(* lock *)

\* lock without the check that nothing is locked
lock_already_locked_removed(l) == FALSE

lock_already_locked(l) == is_some(l)

\* lock without the check of the transferred value
lock_no_assets_removed(transferred) == FALSE

lock_no_assets(transferred) == transferred = 0

\* lock that stores the deposit but emits no event
lock_commit_no_event(caller, transferred) ==
    /\ locker' = Some(caller)
    /\ locked_amount' = transferred
    /\ events' = events

lock_commit(caller, transferred) ==
    /\ locker' = Some(caller)
    /\ locked_amount' = transferred
    /\ events' = Append(events, Locked(caller, transferred))

\* lock with its two checks in the other order
lock_value_first(caller, transferred) ==
    IF lock_no_assets(transferred)
    THEN /\ Return("lock", caller, transferred, "", "NoAssetsSent")
         /\ UNCHANGED <<locker, locked_amount, events, transfers>>
    ELSE IF lock_already_locked(locker)
    THEN /\ Return("lock", caller, transferred, "", "AssetsAlreadyLocked")
         /\ UNCHANGED <<locker, locked_amount, events, transfers>>
    ELSE /\ lock_commit(caller, transferred)
         /\ Return("lock", caller, transferred, "", "Ok")
         /\ UNCHANGED transfers

\* lock that lets the locker add to the deposit
lock_top_up(caller, transferred) ==
    IF lock_already_locked(locker) /\ locker # Some(caller)
    THEN /\ Return("lock", caller, transferred, "", "AssetsAlreadyLocked")
         /\ UNCHANGED <<locker, locked_amount, events, transfers>>
    ELSE IF lock_no_assets(transferred)
    THEN /\ Return("lock", caller, transferred, "", "NoAssetsSent")
         /\ UNCHANGED <<locker, locked_amount, events, transfers>>
    ELSE /\ locker' = Some(caller)
         /\ locked_amount' = locked_amount + transferred
         /\ events' = Append(events, Locked(caller, transferred))
         /\ Return("lock", caller, transferred, "", "Ok")
         /\ UNCHANGED transfers

lock(caller, transferred) ==
    IF lock_already_locked(locker)
    THEN /\ Return("lock", caller, transferred, "", "AssetsAlreadyLocked")
         /\ UNCHANGED <<locker, locked_amount, events, transfers>>
    ELSE IF lock_no_assets(transferred)
    THEN /\ Return("lock", caller, transferred, "", "NoAssetsSent")
         /\ UNCHANGED <<locker, locked_amount, events, transfers>>
    ELSE /\ lock_commit(caller, transferred)
         /\ Return("lock", caller, transferred, "", "Ok")
         /\ UNCHANGED transfers

-----------------------------------------------------------------------------
(* redeem *)

\* redeem that only checks that somebody has locked
redeem_not_locked(l, caller) == l = None

\* redeem that compares the caller with the locker only when there is one
redeem_other_locker(l, caller) == is_some(l) /\ l # Some(caller)

redeem_not_locker(l, caller) == l # Some(caller)

\* redeem that compares the message with a misspelt literal
redeem_bad_message_typo(message) == message # "Hello World!"

\* redeem that compares the message without regard to case
redeem_bad_message_nocase(message) == message \notin {ExpectedMessage, "hello, world!"}

redeem_bad_message(message) == message # ExpectedMessage

\* redeem that asks for the transfer again after asking once
env_transfer_twice(caller, amount, ok) ==
    transfers' = transfers \o <<[to |-> caller, amount |-> amount, ok |-> FALSE],
                                [to |-> caller, amount |-> amount, ok |-> ok]>>

\* self.env().transfer(caller, amount): the environment is asked to move
\* `amount` to `caller` and reports success (ok) or an error
env_transfer(caller, amount, ok) ==
    transfers' = Append(transfers, [to |-> caller, amount |-> amount, ok |-> ok])

\* redeem that leaves locked_amount as it was
redeem_commit_keeps_amount(caller, amount) ==
    /\ locker' = None
    /\ locked_amount' = locked_amount
    /\ events' = Append(events, Redeemed(caller, amount))

\* redeem that leaves the locker as it was
redeem_commit_keeps_locker(caller, amount) ==
    /\ locker' = locker
    /\ locked_amount' = 0
    /\ events' = Append(events, Redeemed(caller, amount))

\* redeem that reads the amount of the event after the reset
redeem_commit_event_after_reset(caller, amount) ==
    /\ locker' = None
    /\ locked_amount' = 0
    /\ events' = Append(events, Redeemed(caller, 0))

redeem_commit(caller, amount) ==
    /\ locker' = None
    /\ locked_amount' = 0
    /\ events' = Append(events, Redeemed(caller, amount))

\* redeem that checks the message before the caller
redeem_message_first(caller, message) ==
    IF redeem_bad_message(message)
    THEN /\ Return("redeem", caller, 0, message, "IncorrectMessage")
         /\ UNCHANGED <<locker, locked_amount, events, transfers>>
    ELSE IF redeem_not_locker(locker, caller)
    THEN /\ Return("redeem", caller, 0, message, "NotLocker")
         /\ UNCHANGED <<locker, locked_amount, events, transfers>>
    ELSE LET amount == locked_amount IN
         \E ok \in BOOLEAN :
            /\ env_transfer(caller, amount, ok)
            /\ IF ~ok
               THEN /\ Return("redeem", caller, 0, message, "TransferFailed")
                    /\ UNCHANGED <<locker, locked_amount, events>>
               ELSE /\ redeem_commit(caller, amount)
                    /\ Return("redeem", caller, 0, message, "Ok")

\* redeem that drops the result of the transfer
redeem_ignores_transfer_result(caller, message) ==
    IF redeem_not_locker(locker, caller)
    THEN /\ Return("redeem", caller, 0, message, "NotLocker")
         /\ UNCHANGED <<locker, locked_amount, events, transfers>>
    ELSE IF redeem_bad_message(message)
    THEN /\ Return("redeem", caller, 0, message, "IncorrectMessage")
         /\ UNCHANGED <<locker, locked_amount, events, transfers>>
    ELSE LET amount == locked_amount IN
         \E ok \in BOOLEAN :
            /\ env_transfer(caller, amount, ok)
            /\ redeem_commit(caller, amount)
            /\ Return("redeem", caller, 0, message, "Ok")

\* redeem that emits its event before it asks for the transfer
redeem_event_before_transfer(caller, message) ==
    IF redeem_not_locker(locker, caller)
    THEN /\ Return("redeem", caller, 0, message, "NotLocker")
         /\ UNCHANGED <<locker, locked_amount, events, transfers>>
    ELSE IF redeem_bad_message(message)
    THEN /\ Return("redeem", caller, 0, message, "IncorrectMessage")
         /\ UNCHANGED <<locker, locked_amount, events, transfers>>
    ELSE LET amount == locked_amount IN
         \E ok \in BOOLEAN :
            /\ events' = Append(events, Redeemed(caller, amount))
            /\ env_transfer(caller, amount, ok)
            /\ IF ~ok
               THEN /\ Return("redeem", caller, 0, message, "TransferFailed")
                    /\ UNCHANGED <<locker, locked_amount>>
               ELSE /\ locker' = None
                    /\ locked_amount' = 0
                    /\ Return("redeem", caller, 0, message, "Ok")

\* redeem that resets the storage before it asks for the transfer
redeem_reset_first(caller, message) ==
    IF redeem_not_locker(locker, caller)
    THEN /\ Return("redeem", caller, 0, message, "NotLocker")
         /\ UNCHANGED <<locker, locked_amount, events, transfers>>
    ELSE IF redeem_bad_message(message)
    THEN /\ Return("redeem", caller, 0, message, "IncorrectMessage")
         /\ UNCHANGED <<locker, locked_amount, events, transfers>>
    ELSE LET amount == locked_amount IN
         \E ok \in BOOLEAN :
            /\ locker' = None
            /\ locked_amount' = 0
            /\ env_transfer(caller, amount, ok)
            /\ IF ~ok
               THEN /\ Return("redeem", caller, 0, message, "TransferFailed")
                    /\ UNCHANGED events
               ELSE /\ events' = Append(events, Redeemed(caller, amount))
                    /\ Return("redeem", caller, 0, message, "Ok")

redeem(caller, message) ==
    IF redeem_not_locker(locker, caller)
    THEN /\ Return("redeem", caller, 0, message, "NotLocker")
         /\ UNCHANGED <<locker, locked_amount, events, transfers>>
    ELSE IF redeem_bad_message(message)
    THEN /\ Return("redeem", caller, 0, message, "IncorrectMessage")
         /\ UNCHANGED <<locker, locked_amount, events, transfers>>
    ELSE LET amount == locked_amount IN
         \E ok \in BOOLEAN :
            /\ env_transfer(caller, amount, ok)
            /\ IF ~ok
               THEN /\ Return("redeem", caller, 0, message, "TransferFailed")
                    /\ UNCHANGED <<locker, locked_amount, events>>
               ELSE /\ redeem_commit(caller, amount)
                    /\ Return("redeem", caller, 0, message, "Ok")

-----------------------------------------------------------------------------
(* The contract under any sequence of message calls *)

Lock == /\ calls < MaxCalls
        /\ \E caller \in Accounts, transferred \in Values : lock(caller, transferred)

Redeem == /\ calls < MaxCalls
          /\ \E caller \in Accounts, message \in Messages : redeem(caller, message)

Next == Lock \/ Redeem

Spec == Init /\ [][Next]_vars

-----------------------------------------------------------------------------
(* The contract when the locker keeps redeeming *)

\* a redeem with the expected message that returns Ok; the locker may
\* issue it after any MaxCalls calls
RedeemSucceeds ==
    /\ calls <= MaxCalls
    /\ \E caller \in Accounts :
          /\ redeem(caller, ExpectedMessage)
          /\ last'.result = "Ok"

LiveNext == Lock \/ Redeem \/ RedeemSucceeds

\* the locker keeps calling redeem with the expected message and the
\* transfer does not fail forever
LiveSpec == Init /\ [][LiveNext]_vars /\ WF_vars(RedeemSucceeds)

-----------------------------------------------------------------------------
(* What the last call did, read from `last` *)

\* the last call found the contract with no locker
WasEmpty == last.pre.locker = None

\* the last call found the contract locked
WasLocked == is_some(last.pre.locker)

\* the last call left the storage, the events and the transfers as they were
NothingChanged ==
    /\ locker = last.pre.locker
    /\ locked_amount = last.pre.locked_amount
    /\ events = last.pre.events
    /\ transfers = last.pre.transfers

\* the last call asked the environment for exactly one transfer
OneTransfer == Len(transfers) = Len(last.pre.transfers) + 1
                 /\ SubSeq(transfers, 1, Len(last.pre.transfers)) = last.pre.transfers

\* the transfer the last call asked for
TheTransfer == transfers[Len(transfers)]

\* the last call was redeem by the locker with the expected message
OwnerRedeem ==
    /\ last.op = "redeem"
    /\ last.pre.locker = Some(last.caller)
    /\ last.message = ExpectedMessage

-----------------------------------------------------------------------------
(* Claims *)

\* C1: in every reachable state a locker is recorded if and only if the
\* recorded amount is greater than zero.
C1_LockerIffAmount ==
    /\ locked_amount >= 0
    /\ (locker = None) <=> (locked_amount = 0)

\* C1 witness: a deposit is held again after a first deposit was redeemed
C1_Witness ==
    /\ is_some(locker)
    /\ locked_amount > 0
    /\ Len(events) = 3

\* C2: every transfer the contract asks for goes to the locker recorded by
\* the most recent successful lock, with exactly the amount that lock recorded.
C2_TransferToLockerOnly ==
    transfers # last.pre.transfers =>
        /\ OneTransfer
        /\ last.pre.locker = Some(TheTransfer.to)
        /\ last.pre.locked_amount = TheTransfer.amount
        /\ last.pre.events # <<>>
        /\ last.pre.events[Len(last.pre.events)] =
               Locked(TheTransfer.to, TheTransfer.amount)

\* C2 witness: a second deposit, by another account, is transferred back
C2_Witness ==
    /\ last.op = "redeem"
    /\ OneTransfer
    /\ Len(last.pre.events) = 3
    /\ last.pre.events[1].locker # TheTransfer.to

\* C3: lock with a value greater than zero on an empty contract returns Ok,
\* records the caller and the value, and emits exactly one Locked event
\* carrying them.
C3_LockSucceeds ==
    (last.op = "lock" /\ WasEmpty /\ last.value > 0) =>
        /\ last.result = "Ok"
        /\ locker = Some(last.caller)
        /\ locked_amount = last.value
        /\ events = Append(last.pre.events, Locked(last.caller, last.value))
        /\ transfers = last.pre.transfers

\* C3 witness: bob locks 2 on an empty contract
C3_Witness ==
    /\ last.op = "lock"
    /\ WasEmpty
    /\ last.caller = "bob"
    /\ last.value = 2

\* C4: lock on a locked contract returns AssetsAlreadyLocked for every caller
\* and every value, zero included, and changes nothing.
C4_LockWhenLocked ==
    (last.op = "lock" /\ WasLocked) =>
        /\ last.result = "AssetsAlreadyLocked"
        /\ NothingChanged

\* C4 witness: another account calls lock with value 0 on a locked contract
C4_Witness ==
    /\ last.op = "lock"
    /\ WasLocked
    /\ last.pre.locker # Some(last.caller)
    /\ last.value = 0

\* C5: lock with value zero on an empty contract returns NoAssetsSent, leaves
\* the contract empty and emits nothing.
C5_LockNoValue ==
    (last.op = "lock" /\ WasEmpty /\ last.value = 0) =>
        /\ last.result = "NoAssetsSent"
        /\ locker = None
        /\ locked_amount = 0
        /\ events = last.pre.events
        /\ transfers = last.pre.transfers

\* C5 witness: lock with value 0 on a contract emptied by a redeem
C5_Witness ==
    /\ last.op = "lock"
    /\ WasEmpty
    /\ last.value = 0
    /\ Len(events) = 2

\* C6: redeem on an empty contract returns NotLocker for every caller and
\* every message, asks for no transfer, emits nothing and leaves it empty.
C6_RedeemWhenEmpty ==
    (last.op = "redeem" /\ WasEmpty) =>
        /\ last.result = "NotLocker"
        /\ locker = None
        /\ locked_amount = 0
        /\ events = last.pre.events
        /\ transfers = last.pre.transfers

\* C6 witness: redeem with the expected message on a contract emptied by a
\* redeem
C6_Witness ==
    /\ last.op = "redeem"
    /\ WasEmpty
    /\ last.message = ExpectedMessage
    /\ Len(last.pre.events) = 2

\* C7: redeem on a locked contract by a caller who is not the locker returns
\* NotLocker whatever the message, asks for no transfer and changes nothing.
C7_RedeemNotLocker ==
    (last.op = "redeem" /\ WasLocked /\ last.pre.locker # Some(last.caller)) =>
        /\ last.result = "NotLocker"
        /\ NothingChanged

\* C7 witness: a caller who is not the locker redeems with a wrong message
C7_Witness ==
    /\ last.op = "redeem"
    /\ WasLocked
    /\ last.pre.locker # Some(last.caller)
    /\ last.message = "Wrong message"

\* C8: redeem by the locker with a message other than "Hello, World!"
\* returns IncorrectMessage, asks for no transfer, emits nothing and changes
\* nothing.
C8_RedeemWrongMessage ==
    (/\ last.op = "redeem"
     /\ last.pre.locker = Some(last.caller)
     /\ last.message # "Hello, World!") =>
        /\ last.result = "IncorrectMessage"
        /\ NothingChanged

\* C8 witness: the locker redeems with a message that differs in case only
C8_Witness ==
    /\ last.op = "redeem"
    /\ last.pre.locker = Some(last.caller)
    /\ last.message = "hello, world!"

\* C9: redeem by the locker with the expected message asks for one transfer
\* of the recorded amount to the locker; when the transfer succeeds the call
\* returns Ok, the contract is empty, and exactly one Redeemed event is
\* emitted with the locker and the amount held before the reset.
C9_RedeemSucceeds ==
    OwnerRedeem =>
        /\ OneTransfer
        /\ TheTransfer.to = last.caller
        /\ TheTransfer.amount = last.pre.locked_amount
        /\ TheTransfer.ok =>
              /\ last.result = "Ok"
              /\ locker = None
              /\ locked_amount = 0
              /\ events = Append(last.pre.events,
                                 Redeemed(last.caller, last.pre.locked_amount))

\* C9 witness: the locker's redeem of an amount of 2 succeeded
C9_Witness ==
    /\ OwnerRedeem
    /\ OneTransfer
    /\ TheTransfer.ok
    /\ last.pre.locked_amount = 2

\* C10: redeem by the locker with the expected message whose transfer fails
\* returns TransferFailed, leaves locker and amount as they were and emits
\* no event.
C10_RedeemTransferFailed ==
    OwnerRedeem =>
        /\ OneTransfer
        /\ ~TheTransfer.ok =>
              /\ last.result = "TransferFailed"
              /\ locker = last.pre.locker
              /\ locked_amount = last.pre.locked_amount
              /\ events = last.pre.events

\* C10 witness: the locker's redeem failed at the transfer
C10_Witness ==
    /\ OwnerRedeem
    /\ OneTransfer
    /\ ~TheTransfer.ok
    /\ last.result = "TransferFailed"
    /\ is_some(locker)


\* the last event emitted before the last call, if any
HadEvents == last.pre.events # <<>>

LastEventBefore == last.pre.events[Len(last.pre.events)]

\* C11: after every successful redeem the contract is empty, and a lock
\* with a value greater than zero that follows a successful redeem, by
\* the same or another caller, succeeds and records only its own caller and
\* value.
C11_Reusable ==
    /\ (last.op = "redeem" /\ last.result = "Ok") =>
           /\ locker = None
           /\ locked_amount = 0
    /\ (/\ last.op = "lock"
        /\ last.value > 0
        /\ HadEvents
        /\ LastEventBefore.event = "Redeemed") =>
           /\ last.result = "Ok"
           /\ locker = Some(last.caller)
           /\ locked_amount = last.value

\* C11 witness: after two redeems, a third lock by an account other than
\* the one that redeemed last, with another value
C11_Witness ==
    /\ last.op = "lock"
    /\ last.result = "Ok"
    /\ Len(last.pre.events) = 4
    /\ LastEventBefore.event = "Redeemed"
    /\ LastEventBefore.locker # last.caller
    /\ LastEventBefore.amount # last.value

\* C12: a contract constructed by new or by default has no locker, amount
\* 0, and has emitted no event.
C12_ConstructedEmpty ==
    last.op \in {"new", "default"} =>
        /\ locker = None
        /\ locked_amount = 0
        /\ events = <<>>
        /\ transfers = <<>>

\* C12 witness: the contract as constructed by new
C12_Witness ==
    /\ last.op = "new"
    /\ calls = 0


\* the number of events of the given kind in a log
RECURSIVE CountEvents(_, _)
CountEvents(log, kind) ==
    IF log = <<>> THEN 0
    ELSE (IF log[1].event = kind THEN 1 ELSE 0) + CountEvents(Tail(log), kind)

\* the deposits accepted and not yet redeemed
DepositsHeld == CountEvents(events, "Locked") - CountEvents(events, "Redeemed")

\* C13: at most one deposit is held at a time: a lock succeeds only when
\* no deposit is held, every other lock fails and leaves locker and amount
\* as they were, and between two successful redeems at most one lock has
\* succeeded.
C13_OneDepositAtATime ==
    /\ (last.op = "lock" /\ last.result = "Ok") => WasEmpty
    /\ (last.op = "lock" /\ last.result # "Ok") =>
           /\ locker = last.pre.locker
           /\ locked_amount = last.pre.locked_amount
    /\ DepositsHeld \in {0, 1}
    /\ DepositsHeld = 1 <=> is_some(locker)

\* C13 witness: while alice's deposit is held, a lock by bob with a value
\* greater than zero fails, after an earlier lock in the same interval
\* failed too
C13_Witness ==
    /\ last.op = "lock"
    /\ last.result = "AssetsAlreadyLocked"
    /\ last.caller = "bob"
    /\ last.value > 0
    /\ locker = Some("alice")
    /\ calls >= 3
    /\ Len(events) = 1

\* C14: the contract goes from locked to empty only in a redeem that
\* returns Ok and that asked for one transfer, of the amount held to the
\* locker, which succeeded; no other call clears locker or amount.
C14_ClearedOnlyAfterTransfer ==
    (WasLocked /\ (locker = None \/ locked_amount # last.pre.locked_amount)) =>
        /\ last.op = "redeem"
        /\ last.result = "Ok"
        /\ OneTransfer
        /\ TheTransfer = [to |-> last.pre.locker[1],
                          amount |-> last.pre.locked_amount, ok |-> TRUE]
        /\ locker = None
        /\ locked_amount = 0

\* C14 witness: a redeem cleared the deposit after an earlier redeem of
\* the same deposit failed at the transfer
C14_Witness ==
    /\ WasLocked
    /\ locker = None
    /\ Len(transfers) = 2
    /\ ~transfers[1].ok
    /\ Len(events) = 2

\* C15: a call asks for at most one transfer, and only a redeem by the
\* locker with the expected message asks for one; lock, and a redeem that
\* returns NotLocker or IncorrectMessage, ask for none.
C15_TransferAtMostOnce ==
    /\ transfers = last.pre.transfers \/ OneTransfer
    /\ transfers # last.pre.transfers =>
           /\ OwnerRedeem
           /\ last.result \in {"Ok", "TransferFailed"}
    /\ (\/ last.op = "lock"
        \/ last.result \in {"NotLocker", "IncorrectMessage"}) =>
           transfers = last.pre.transfers

\* C15 witness: a redeem asked for its one transfer, which failed, in a
\* behaviour where an earlier redeem had asked for one too
C15_Witness ==
    /\ OwnerRedeem
    /\ OneTransfer
    /\ ~TheTransfer.ok
    /\ Len(transfers) = 3

\* the deposit the last call found: the last event before it is the Locked
\* event of the caller, and the transfer asked for last before it failed
RetryAfterFailure ==
    /\ last.op = "redeem"
    /\ last.message = ExpectedMessage
    /\ HadEvents
    /\ LastEventBefore.event = "Locked"
    /\ LastEventBefore.locker = last.caller
    /\ last.pre.transfers # <<>>
    /\ ~last.pre.transfers[Len(last.pre.transfers)].ok

\* C16: after redeems of a deposit that failed at the transfer, a redeem
\* by the locker with the expected message asks for the transfer of the
\* full amount of the deposit, and when that transfer succeeds it returns
\* Ok.
C16_RetryAfterTransferFailed ==
    RetryAfterFailure =>
        /\ OneTransfer
        /\ TheTransfer.to = last.caller
        /\ TheTransfer.amount = LastEventBefore.amount
        /\ TheTransfer.ok =>
              /\ last.result = "Ok"
              /\ locker = None
              /\ locked_amount = 0

\* C16 witness: the redeem of a deposit of 2 succeeds after two redeems
\* of it failed at the transfer
C16_Witness ==
    /\ RetryAfterFailure
    /\ last.result = "Ok"
    /\ Len(transfers) = 3
    /\ ~transfers[1].ok
    /\ ~transfers[2].ok
    /\ TheTransfer = [to |-> last.caller, amount |-> 2, ok |-> TRUE]


\* a call that returns Ok is possible: every lock with a value greater than
\* zero when the contract is empty, the locker's redeem with the expected
\* message when it is locked
CanSucceed ==
    IF locker = None
    THEN \A c \in Accounts, v \in Values \ {0} :
            ENABLED (lock(c, v) /\ last'.result = "Ok")
    ELSE ENABLED (redeem(locker[1], ExpectedMessage) /\ last'.result = "Ok")

\* C17: in every reachable state a call can succeed, and when the locker
\* keeps redeeming with the expected message and the transfer does not fail
\* forever, every locked state is followed by an empty one.
C17_NoTerminalState ==
    /\ []CanSucceed
    /\ is_some(locker) ~> locker = None

\* C17 witness: a deposit made with the last of the MaxCalls calls has
\* been redeemed
C17_Witness ==
    /\ calls = MaxCalls + 1
    /\ last.op = "redeem"
    /\ last.result = "Ok"
    /\ locker = None
    /\ Len(last.pre.events) = 3


\* C18: while the contract is locked, no call changes the locker or the
\* amount except a redeem that returns Ok.
C18_DepositFrozen ==
    [][is_some(locker) =>
          \/ /\ locker' = locker
             /\ locked_amount' = locked_amount
          \/ /\ last'.op = "redeem"
             /\ last'.result = "Ok"]_vars

\* C18 witness: one deposit is still held, unchanged, after four more
\* calls that failed, one of them at the transfer
C18_Witness ==
    /\ calls = 5
    /\ Len(events) = 1
    /\ Len(transfers) = 1
    /\ last.result \in {"AssetsAlreadyLocked", "NotLocker", "IncorrectMessage"}
    /\ locker = Some(events[1].locker)
    /\ locked_amount = events[1].amount

\* the total of the amounts of the transfers that succeeded
RECURSIVE Moved(_)
Moved(log) ==
    IF log = <<>> THEN 0
    ELSE (IF log[1].ok THEN log[1].amount ELSE 0) + Moved(Tail(log))

\* C19: the total accepted by the locks that returned Ok, less the total
\* moved by the transfers that succeeded, is the recorded amount; so no more
\* is moved out than was accepted, and an empty contract has paid back all
\* it accepted.
C19_ValueConserved ==
    /\ accepted - Moved(transfers) = locked_amount
    /\ Moved(transfers) <= accepted
    /\ locker = None => Moved(transfers) = accepted

\* C19 witness: two deposits of 2 were accepted and paid back, with one
\* failed transfer in between
C19_Witness ==
    /\ locker = None
    /\ accepted = 4
    /\ Len(transfers) = 3
    /\ Moved(transfers) = 4

\* C20: the events are Locked, Redeemed, Locked, Redeemed, ...; every
\* Redeemed carries the locker and the amount of the Locked before it; the
\* contract is locked exactly when the last event is a Locked; and a call
\* that returns an error emits nothing.
C20_EventsAlternate ==
    /\ \A i \in 1..Len(events) :
          IF i % 2 = 1
          THEN events[i].event = "Locked"
          ELSE /\ events[i].event = "Redeemed"
               /\ events[i].locker = events[i - 1].locker
               /\ events[i].amount = events[i - 1].amount
    /\ is_some(locker) <=> (events # <<>> /\ events[Len(events)].event = "Locked")
    /\ last.result # "Ok" => events = last.pre.events

\* C20 witness: two deposits by different accounts were locked and
\* redeemed, with a redeem that failed at the transfer among the calls
C20_Witness ==
    /\ Len(events) = 4
    /\ events[1].locker # events[3].locker
    /\ Len(transfers) = 3

=============================================================================
